---- MODULE Spec2Model ----
(***************************************************************************)
(* Model of QueryProcessor (src/QueryProcessor.py): the boolean/proximity  *)
(* expression evaluator, the linear merge of proximityHandler, the TF-IDF  *)
(* ranker and the two result writers.                                      *)
(*                                                                         *)
(* Strings are sequences of one-character strings, so that `in`, split,    *)
(* strip and re.sub are computed on the characters as Python computes them.*)
(* Python indices are 0-based and kept so: list[i] is written P[i + 1].    *)
(* A call that raises is the record Raise(e); a call that returns v is     *)
(* Ok(v).                                                                  *)
(***************************************************************************)
EXTENDS Integers, Sequences, FiniteSets, TLC

(***************************************************************************)
(* Bounds of the model.                                                    *)
(***************************************************************************)
\* Token positions of the proximity index are drawn from 1..MaxPos.
MaxPos == 4
\* Term frequencies of the ranking index are drawn from 0..MaxTf.
MaxTf == 2
\* A ranked query has at most MaxTokens tokens.
MaxTokens == 3

(***************************************************************************)
(* Python values                                                           *)
(***************************************************************************)
Ok(v) == [err |-> "", val |-> v]
Raise(e) == [err |-> e, val |-> {}]

Min(a, b) == IF a <= b THEN a ELSE b
Abs(n) == IF n < 0 THEN 0 - n ELSE n

\* sorted(S) for a set of integers; the recursion halves the value range.
RECURSIVE SortedList(_)
SortedList(S) ==
    IF S = {} THEN <<>>
    ELSE LET lo == CHOOSE a \in S : \A b \in S : a <= b
             hi == CHOOSE a \in S : \A b \in S : b <= a
             mid == (lo + hi) \div 2
         IN IF lo = hi THEN <<lo>>
            ELSE SortedList({x \in S : x <= mid}) \o SortedList({x \in S : x > mid})

SeqToSet(s) == {s[k] : k \in 1..Len(s)}

(***************************************************************************)
(* Python string operations                                                *)
(***************************************************************************)
\* s.find(pat) + 1: the 1-based index of the first occurrence, 0 when absent.
Find(s, pat) ==
    LET hits == {k \in 1..(Len(s) - Len(pat) + 1) : SubSeq(s, k, k + Len(pat) - 1) = pat}
    IN IF hits = {} THEN 0 ELSE CHOOSE k \in hits : \A m \in hits : k <= m

\* pat in s
Contains(s, pat) == Find(s, pat) # 0

\* s.split(sep): every non-overlapping occurrence, left to right.
RECURSIVE Split(_, _)
Split(s, sep) ==
    LET k == Find(s, sep)
    IN IF k = 0 THEN <<s>>
       ELSE <<SubSeq(s, 1, k - 1)>> \o Split(SubSeq(s, k + Len(sep), Len(s)), sep)

\* s.split(sep, 1): at most one split.
Split1(s, sep) ==
    LET k == Find(s, sep)
    IN IF k = 0 THEN <<s>>
       ELSE <<SubSeq(s, 1, k - 1), SubSeq(s, k + Len(sep), Len(s))>>

\* s.strip()
RECURSIVE Strip(_)
Strip(s) ==
    IF s = <<>> THEN s
    ELSE IF Head(s) = " " THEN Strip(Tail(s))
    ELSE IF s[Len(s)] = " " THEN Strip(SubSeq(s, 1, Len(s) - 1))
    ELSE s

Digits == <<"0", "1", "2", "3", "4", "5", "6", "7", "8", "9">>
IsDigit(c) == \E k \in 1..10 : Digits[k] = c
DigitValue(c) == (CHOOSE k \in 1..10 : Digits[k] = c) - 1

\* re.sub('[^0-9]+', '', s)
KeepDigits(s) == SelectSeq(s, IsDigit)

\* int(s) for a string of digits; int('') raises ValueError.
RECURSIVE DigitsToInt(_)
DigitsToInt(s) ==
    IF s = <<>> THEN 0 ELSE 10 * DigitsToInt(SubSeq(s, 1, Len(s) - 1)) + DigitValue(s[Len(s)])

\* re.sub(r'[\"]+', '', s)
DropQuotes(s) == SelectSeq(s, LAMBDA c : c # "\"")

\* re.sub(r' ', ',', s)
SpacesToCommas(s) == [k \in 1..Len(s) |-> IF s[k] = " " THEN "," ELSE s[k]]

(***************************************************************************)
(* Preprocessor (imported module): lower-casing, tokenizing, stop words    *)
(* and stemming.                                                           *)
(***************************************************************************)
UpperCase == <<"A", "B", "C", "D", "E", "F", "G", "H", "I", "J", "K", "L", "M",
               "N", "O", "P", "Q", "R", "S", "T", "U", "V", "W", "X", "Y", "Z">>
LowerCase == <<"a", "b", "c", "d", "e", "f", "g", "h", "i", "j", "k", "l", "m",
               "n", "o", "p", "q", "r", "s", "t", "u", "v", "w", "x", "y", "z">>

LowerOf == [c \in {UpperCase[u] : u \in 1..Len(UpperCase)} |->
               LowerCase[CHOOSE u \in 1..Len(UpperCase) : UpperCase[u] = c]]

toLowerCase(s) == [k \in 1..Len(s) |-> IF s[k] \in DOMAIN LowerOf THEN LowerOf[s[k]] ELSE s[k]]

\* The tokens of a lower-cased text: its pieces between blanks (a double
\* blank yields an empty token, which calculateTFIDF tests for).
tokenize(s) == Split(s, <<" ">>)

StopWords == {<<"t", "h", "e">>}
isNotAStopword(word) == word \notin StopWords

EndsWith(s, suf) == Len(s) >= Len(suf) /\ SubSeq(s, Len(s) - Len(suf) + 1, Len(s)) = suf
DropLast(s, n) == SubSeq(s, 1, Len(s) - n)

\* Step 1a of the Porter algorithm (sses -> ss, ies -> i, ss -> ss, s -> ),
\* which is the step the words of the model exercise; words of one or two
\* letters are left alone.
stemWordPorter(word) ==
    IF Len(word) <= 2 THEN word
    ELSE IF EndsWith(word, <<"s", "s", "e", "s">>) THEN DropLast(word, 2)
    ELSE IF EndsWith(word, <<"i", "e", "s">>) THEN DropLast(word, 2)
    ELSE IF EndsWith(word, <<"s", "s">>) THEN word
    ELSE IF EndsWith(word, <<"s">>) THEN DropLast(word, 1)
    ELSE word

\* preprocessedTerm: strip, lower-case, stem.
preprocessedTerm(word) == stemWordPorter(toLowerCase(Strip(word)))

(***************************************************************************)
(* State                                                                   *)
(***************************************************************************)
VARIABLES
    ii,                 \* the index: term -> (document -> position list)
    docIDSet,           \* all document IDs of the loaded index
    collectionSize,     \* len(docIDSet) after the load
    pc,                 \* where the running call is: "idle", "for", "done", "raised"
    call,               \* the arguments of the running call
    dict1, dict2,       \* proximityHandler: the two terms' posting maps
    intersection,       \* proximityHandler: candidate documents still to scan
    document,           \* proximityHandler: the candidate being scanned (0: none)
    i, j,               \* proximityHandler: the merge pointers
    thereIsNoMatch, notOutOfBounds,
    matchingDocuments,  \* proximityHandler: the list of matches
    iterations,         \* iterations of the while loop run for `document`
    returned,           \* what the finished call returned or raised
    booleanQueriesDictionary,   \* query ID -> boolean query string
    tfidfQueriesDictionary,     \* query ID -> ranked query string
    queryResults,       \* query ID -> result of the query
    writing             \* the writer of a results file: its loops and the file

indexVars == <<ii, docIDSet, collectionSize>>
proxVars == <<dict1, dict2, intersection, document, i, j, thereIsNoMatch,
              notOutOfBounds, matchingDocuments, iterations>>
batchVars == <<booleanQueriesDictionary, tfidfQueriesDictionary, queryResults, writing>>
vars == <<indexVars, pc, call, proxVars, returned, batchVars>>

(***************************************************************************)
(* InvertedIndex (imported module)                                         *)
(***************************************************************************)
EmptyDict == [d \in {} |-> <<>>]

\* The posting map of a term; empty for a term the index does not hold.
getTermDocumentDictionary(term) == IF term \in DOMAIN ii THEN ii[term] ELSE EmptyDict

\* The documents of a term; empty for a term the index does not hold.
getTermDocumentSet(term) == DOMAIN getTermDocumentDictionary(term)

(***************************************************************************)
(* importInvertedIndexFromFile.  An index file is read as its content: for *)
(* every term line the document lines under it, each a document ID and a   *)
(* comma-separated position list.                                          *)
(***************************************************************************)
cat == <<"c", "a", "t">>
dog == <<"d", "o", "g">>

\* The non-empty strictly ascending position lists over 1..maxPos.
PositionLists(maxPos) == {SortedList(S) : S \in (SUBSET (1..maxPos)) \ {{}}}

\* The document lines a term line can be followed by.
PostingMaps(docs, lists) == UNION {[D -> lists] : D \in SUBSET docs}

FileDocIDs(file) == UNION {DOMAIN file[t] : t \in DOMAIN file}

\* The index is loaded once, into the object as constructed.
importInvertedIndexFromFile(file) ==
    /\ pc = "idle"
    /\ docIDSet = {}
    /\ ii' = [t \in {u \in DOMAIN file : DOMAIN file[u] # {}} |-> file[t]]
    /\ docIDSet' = docIDSet \cup FileDocIDs(file)
    /\ collectionSize' = Cardinality(docIDSet')
    /\ UNCHANGED <<pc, call, proxVars, returned, batchVars>>

(***************************************************************************)
(* proximityHandler: the linear merge                                      *)
(***************************************************************************)
\* MatchCondition with < for <=: the gap equal to the distance is missed.
MatchCondition_strict(p1, p2, distance, isPhrase) ==
    LET condition == IF isPhrase THEN (p1 - p2) <= 0 ELSE TRUE
    IN Abs(p1 - p2) < distance /\ condition

\* MatchCondition without the order test of a phrase.
MatchCondition_unordered(p1, p2, distance, isPhrase) == Abs(p1 - p2) <= distance

\* Lines 143-147: the two positions match.
MatchCondition(p1, p2, distance, isPhrase) ==
    LET condition == IF isPhrase THEN (p1 - p2) <= 0 ELSE TRUE
    IN Abs(p1 - p2) <= distance /\ condition

\* AdvanceFirst without the test for the last index.
AdvanceFirst_unbounded(P1, P2, a, b) == P1[a + 1] < P2[b + 1]

\* Line 151: the first pointer moves.
AdvanceFirst(P1, P2, a, b) == P1[a + 1] < P2[b + 1] /\ a < Len(P1) - 1

\* Line 153: the second pointer moves.
AdvanceSecond(P1, P2, a, b) == P1[a + 1] >= P2[b + 1] /\ b < Len(P2) - 1

\* MergeStep whose last branch forgets to clear notOutOfBounds.
MergeStep_noGiveUp(P1, P2, m, distance, isPhrase) ==
    IF MatchCondition(P1[m.i + 1], P2[m.j + 1], distance, isPhrase)
    THEN [m EXCEPT !.thereIsNoMatch = FALSE]
    ELSE IF AdvanceFirst(P1, P2, m.i, m.j) THEN [m EXCEPT !.i = m.i + 1]
    ELSE IF AdvanceSecond(P1, P2, m.i, m.j) THEN [m EXCEPT !.j = m.j + 1]
    ELSE m

\* One iteration of the while loop (lines 143-156) on the loop state m.
MergeStep(P1, P2, m, distance, isPhrase) ==
    IF MatchCondition(P1[m.i + 1], P2[m.j + 1], distance, isPhrase)
    THEN [m EXCEPT !.thereIsNoMatch = FALSE]
    ELSE IF AdvanceFirst(P1, P2, m.i, m.j) THEN [m EXCEPT !.i = m.i + 1]
    ELSE IF AdvanceSecond(P1, P2, m.i, m.j) THEN [m EXCEPT !.j = m.j + 1]
    ELSE [m EXCEPT !.notOutOfBounds = FALSE]

MergeStart == [i |-> 0, j |-> 0, thereIsNoMatch |-> TRUE, notOutOfBounds |-> TRUE]

\* The while loop (line 142) run to its end.
RECURSIVE MergeRun(_, _, _, _, _)
MergeRun(P1, P2, m, distance, isPhrase) ==
    IF m.thereIsNoMatch /\ m.notOutOfBounds
    THEN MergeRun(P1, P2, MergeStep(P1, P2, m, distance, isPhrase), distance, isPhrase)
    ELSE m

\* Line 133: the candidate documents.
Candidates(d1, d2) == (DOMAIN d1) \cap (DOMAIN d2)

\* Lines 128-132: the two posting maps, or IndexError when the query has
\* no comma (termPair[1]).
TermDictionaries(proximityQuery) ==
    LET termPair == Split(proximityQuery, <<",">>)
    IN IF Len(termPair) < 2 THEN Raise("IndexError")
       ELSE Ok(<<getTermDocumentDictionary(preprocessedTerm(Strip(termPair[1]))),
                 getTermDocumentDictionary(preprocessedTerm(Strip(termPair[2])))>>)

\* proximityHandler as a function of its arguments and the index.
proximityHandler(proximityQuery, distance, isPhrase) ==
    LET dicts == TermDictionaries(proximityQuery)
    IN IF dicts.err # "" THEN Raise(dicts.err)
       ELSE LET d1 == dicts.val[1]
                d2 == dicts.val[2]
            IN Ok({d \in Candidates(d1, d2) :
                     ~MergeRun(d1[d], d2[d], MergeStart, distance, isPhrase).thereIsNoMatch})

\* phraseHandler (lines 107-109).
phraseHandler(phraseQuery) ==
    proximityHandler(SpacesToCommas(DropQuotes(phraseQuery)), 1, TRUE)

(***************************************************************************)
(* simpleExpressionHandler and complexExpressionHandler                    *)
(***************************************************************************)
NOT == <<"N", "O", "T">>
AND == <<" ", "A", "N", "D", " ">>
OR == <<" ", "O", "R", " ">>
Quote == <<"\"">>
Hash == <<"#">>

\* simpleExpressionHandler that returns the term's documents for NOT.
simpleExpressionHandler_noComplement(singleExpression) ==
    IF Contains(singleExpression, NOT)
    THEN LET standaloneTerm == Strip(Split1(singleExpression, NOT)[2])
         IN IF Contains(standaloneTerm, Quote) THEN phraseHandler(standaloneTerm)
            ELSE Ok(getTermDocumentSet(preprocessedTerm(standaloneTerm)))
    ELSE IF Contains(singleExpression, Quote) THEN phraseHandler(singleExpression)
    ELSE Ok(getTermDocumentSet(preprocessedTerm(singleExpression)))

\* Lines 80-90.
simpleExpressionHandler(singleExpression) ==
    IF Contains(singleExpression, NOT)
    THEN LET standaloneTerm == Strip(Split1(singleExpression, NOT)[2])
             termDocumentSet ==
                 IF Contains(standaloneTerm, Quote) THEN phraseHandler(standaloneTerm)
                 ELSE Ok(getTermDocumentSet(preprocessedTerm(standaloneTerm)))
         IN IF termDocumentSet.err # "" THEN termDocumentSet
            ELSE Ok(docIDSet \ termDocumentSet.val)
    ELSE IF Contains(singleExpression, Quote) THEN phraseHandler(singleExpression)
    ELSE Ok(getTermDocumentSet(preprocessedTerm(singleExpression)))

\* Lines 52-53 and 56-57: every operand of the split is evaluated, in order;
\* the first one that raises ends the call.
ExpressionSets(query, operator) ==
    LET operands == Split(query, operator)
    IN [k \in 1..Len(operands) |-> simpleExpressionHandler(Strip(operands[k]))]

FirstError(expressionSets) ==
    LET bad == {k \in 1..Len(expressionSets) : expressionSets[k].err # ""}
    IN IF bad = {} THEN ""
       ELSE expressionSets[CHOOSE k \in bad : \A m \in bad : k <= m].err

\* Lines 59-63: the proximity branch.
ProximityExpression(query) ==
    LET tempList == Split(query, <<"(">>)
        digits == KeepDigits(tempList[1])
    IN IF digits = <<>> THEN Raise("ValueError")
       ELSE IF Len(tempList) < 2 THEN Raise("IndexError")
       ELSE proximityHandler(Split(tempList[2], <<")">>)[1], DigitsToInt(digits), FALSE)

RECURSIVE IntersectAll(_)
IntersectAll(sets) ==
    IF Len(sets) = 1 THEN sets[1].val ELSE sets[1].val \cap IntersectAll(Tail(sets))

\* complexExpressionHandler with AND folded over every operand.
complexExpressionHandler_allOperands(query) ==
    IF Contains(query, AND)
    THEN LET expressionSets == ExpressionSets(query, AND)
         IN IF FirstError(expressionSets) # "" THEN Raise(FirstError(expressionSets))
            ELSE Ok(IntersectAll(expressionSets))
    ELSE IF Contains(query, OR)
    THEN LET expressionSets == ExpressionSets(query, OR)
         IN IF FirstError(expressionSets) # "" THEN Raise(FirstError(expressionSets))
            ELSE Ok(expressionSets[1].val \cup expressionSets[2].val)
    ELSE IF Contains(query, Hash) THEN ProximityExpression(query)
    ELSE simpleExpressionHandler(query)

\* Lines 50-65.
complexExpressionHandler(query) ==
    IF Contains(query, AND)
    THEN LET expressionSets == ExpressionSets(query, AND)
         IN IF FirstError(expressionSets) # "" THEN Raise(FirstError(expressionSets))
            ELSE Ok(expressionSets[1].val \cap expressionSets[2].val)
    ELSE IF Contains(query, OR)
    THEN LET expressionSets == ExpressionSets(query, OR)
         IN IF FirstError(expressionSets) # "" THEN Raise(FirstError(expressionSets))
            ELSE Ok(expressionSets[1].val \cup expressionSets[2].val)
    ELSE IF Contains(query, Hash) THEN ProximityExpression(query)
    ELSE simpleExpressionHandler(query)

(***************************************************************************)
(* writeBooleanResultsToFile and writeTFIDFResultsToFile                   *)
(***************************************************************************)
\* Lines 264 and 286: the value of counter at which the loop breaks.
BreakAt == 999

\* Line 263: sorted(v), the documents in ascending order.
BooleanEntries(v) == SortedList(v)

\* Line 285: sorted(v.items(), key = score, reverse = True).  The sort is
\* stable, so documents of equal score stay in the order of the dictionary;
\* for the document IDs of the model, all smaller than the dictionary's
\* table, that order is the ascending one.
TFIDFEntries(v) ==
    LET width == 1 + Cardinality(DOMAIN v) + (IF DOMAIN v = {} THEN 0
                     ELSE CHOOSE a \in DOMAIN v : \A b \in DOMAIN v : b <= a)
        keys == SortedList({(0 - v[d]) * width + d : d \in DOMAIN v})
    IN [k \in 1..Len(keys) |-> <<keys[k] % width, v[keys[k] % width]>>]

Entries(kind, v) == IF kind = "boolean" THEN BooleanEntries(v) ELSE TFIDFEntries(v)
Size(kind, v) == IF kind = "boolean" THEN Cardinality(v) ELSE Cardinality(DOMAIN v)

\* Lines 262 and 284: the line of a query without results.
NullLine(k) == <<k, 0, "null", 0, "null", 0>>

\* Lines 266 and 288: the line of an entry.
ResultLine(kind, k, entry) ==
    IF kind = "boolean" THEN <<k, 0, entry, 0, 1, 0>> ELSE <<k, 0, entry[1], 0, entry[2], 0>>

WriterIdle == [kind |-> "", results |-> <<>>, k |-> 0, entries |-> <<>>, counter |-> 0,
               inner |-> FALSE, closed |-> TRUE, output |-> <<>>]

\* Lines 259 and 281: the file is opened (and emptied) and the loop over the
\* queries starts.
WriterOpen(kind, results) ==
    [kind |-> kind, results |-> results, k |-> 0, entries |-> <<>>, counter |-> 0,
     inner |-> FALSE, closed |-> FALSE, output |-> <<>>]

\* One step of the writer: the head of the outer loop (lines 260-262 and
\* 282-284) or one round of the inner loop (lines 263-266 and 285-288).
WriterStep(w) ==
    IF w.inner
    THEN IF w.counter >= Len(w.entries) \/ w.counter = BreakAt
         THEN [w EXCEPT !.inner = FALSE]
         ELSE [w EXCEPT !.output = Append(@, ResultLine(w.kind, w.k, w.entries[w.counter + 1])),
                        !.counter = @ + 1]
    ELSE IF w.k = Len(w.results) THEN [w EXCEPT !.closed = TRUE]
    ELSE LET k == w.k + 1
             v == w.results[k]
         IN [w EXCEPT !.k = k,
                      !.entries = Entries(w.kind, v),
                      !.counter = 0,
                      !.inner = TRUE,
                      !.output = IF Size(w.kind, v) = 0 THEN Append(@, NullLine(k)) ELSE @]

\* The writer run to the end of the file.
RECURSIVE WriterRun(_)
WriterRun(w) == IF w.closed THEN w ELSE WriterRun(WriterStep(w))

(***************************************************************************)
(* proximityHandler, one step of its loops at a time                       *)
(***************************************************************************)
\* Lines 128-134: the call starts.
ProxEnter(proximityQuery, distance, isPhrase) ==
    \E dicts \in {TermDictionaries(proximityQuery)} :
       /\ pc = "idle"
       /\ call' = [proximityQuery |-> proximityQuery, distance |-> distance,
                   isPhrase |-> isPhrase]
       /\ IF dicts.err # ""
          THEN /\ pc' = "raised"
               /\ returned' = Raise(dicts.err)
               /\ UNCHANGED proxVars
          ELSE /\ pc' = "for"
               /\ dict1' = dicts.val[1]
               /\ dict2' = dicts.val[2]
               /\ intersection' = SortedList(Candidates(dicts.val[1], dicts.val[2]))
               /\ matchingDocuments' = <<>>
               /\ UNCHANGED <<document, i, j, thereIsNoMatch, notOutOfBounds,
                              iterations, returned>>
       /\ UNCHANGED <<indexVars, batchVars>>

\* Lines 135-141: the for loop takes the next candidate.
ProxNextDocument ==
    /\ pc = "for"
    /\ intersection # <<>>
    /\ document' = Head(intersection)
    /\ intersection' = Tail(intersection)
    /\ i' = 0
    /\ j' = 0
    /\ thereIsNoMatch' = TRUE
    /\ notOutOfBounds' = TRUE
    /\ iterations' = 0
    /\ pc' = "while"
    /\ UNCHANGED <<indexVars, call, dict1, dict2, matchingDocuments, returned, batchVars>>

\* Lines 142-156: one iteration of the while loop.
ProxIteration ==
    /\ pc = "while"
    /\ thereIsNoMatch /\ notOutOfBounds
    /\ LET m == MergeStep(dict1[document], dict2[document],
                          [i |-> i, j |-> j, thereIsNoMatch |-> thereIsNoMatch,
                           notOutOfBounds |-> notOutOfBounds],
                          call.distance, call.isPhrase)
       IN /\ i' = m.i
          /\ j' = m.j
          /\ thereIsNoMatch' = m.thereIsNoMatch
          /\ notOutOfBounds' = m.notOutOfBounds
          /\ matchingDocuments' = IF m.thereIsNoMatch THEN matchingDocuments
                                  ELSE Append(matchingDocuments, document)
    /\ iterations' = iterations + 1
    /\ UNCHANGED <<indexVars, pc, call, dict1, dict2, intersection, document, returned,
                   batchVars>>

\* Line 142: the while condition fails, back to the for loop.
ProxLeaveWhile ==
    /\ pc = "while"
    /\ ~(thereIsNoMatch /\ notOutOfBounds)
    /\ pc' = "for"
    /\ UNCHANGED <<indexVars, call, proxVars, returned, batchVars>>

\* Line 157: the for loop is over.
ProxReturn ==
    /\ pc = "for"
    /\ intersection = <<>>
    /\ pc' = "done"
    /\ returned' = Ok(SeqToSet(matchingDocuments))
    /\ UNCHANGED <<indexVars, call, proxVars, batchVars>>

(***************************************************************************)
(* The proximity matcher under every small index                           *)
(***************************************************************************)
\* Document 1 holds every position list over 1..MaxPos, document 2 every one
\* over 1..2; either may lack either term.
ProxTermLines ==
    {[d \in D |-> IF d = 1 THEN one ELSE two] :
        D \in SUBSET {1, 2}, one \in PositionLists(MaxPos), two \in PositionLists(2)}
ProxIndexFiles == [{cat, dog} -> ProxTermLines]

\* "cat, Dogs" and "cat,dogs": both are the terms cat and dog.
ProxQueries == {<<"c", "a", "t", ",", " ", "D", "o", "g", "s">>}
\* "cat dogs" in quotes, and the one-word phrase "cat" in quotes.
PhraseQueries == {<<"\"", "c", "a", "t", " ", "d", "o", "g", "s", "\"">>,
                  <<"\"", "c", "a", "t", "\"">>}
Distances == 0..(MaxPos - 1)

Init ==
    /\ ii = <<>>
    /\ docIDSet = {}
    /\ collectionSize = 0
    /\ pc = "idle"
    /\ call = <<>>
    /\ dict1 = EmptyDict
    /\ dict2 = EmptyDict
    /\ intersection = <<>>
    /\ document = 0
    /\ i = 0
    /\ j = 0
    /\ thereIsNoMatch = TRUE
    /\ notOutOfBounds = TRUE
    /\ matchingDocuments = <<>>
    /\ iterations = 0
    /\ returned = Ok({})
    /\ booleanQueriesDictionary = <<>>
    /\ tfidfQueriesDictionary = <<>>
    /\ queryResults = <<>>
    /\ writing = WriterIdle

ProxLoadIndex ==
    /\ pc = "idle" /\ docIDSet = {}
    /\ \E file \in ProxIndexFiles : importInvertedIndexFromFile(file)

ProxCall ==
    /\ pc = "idle"
    /\ \E q \in ProxQueries, distance \in Distances, isPhrase \in BOOLEAN :
          ProxEnter(q, distance, isPhrase)

PhraseCall ==
    /\ pc = "idle"
    /\ \E q \in PhraseQueries : ProxEnter(SpacesToCommas(DropQuotes(q)), 1, TRUE)

ProxNext ==
    \/ ProxLoadIndex
    \/ ProxCall
    \/ PhraseCall
    \/ ProxNextDocument
    \/ ProxIteration
    \/ ProxLeaveWhile
    \/ ProxReturn

SpecProx == Init /\ [][ProxNext]_vars

(***************************************************************************)
(* Properties of the proximity matcher                                     *)
(***************************************************************************)
\* The posting maps of the two terms of the matcher's queries.
Postings1 == IF cat \in DOMAIN ii THEN ii[cat] ELSE EmptyDict
Postings2 == IF dog \in DOMAIN ii THEN ii[dog] ELSE EmptyDict
BothTerms == {d \in docIDSet : d \in DOMAIN Postings1 /\ d \in DOMAIN Postings2}

\* The gaps p1 - p2 over all pairs of positions of a document of BothTerms.
Gaps(d) == {Postings1[d][a] - Postings2[d][b] :
               a \in 1..Len(Postings1[d]), b \in 1..Len(Postings2[d])}
MinGap(d) == CHOOSE g \in {Abs(x) : x \in Gaps(d)} : \A x \in Gaps(d) : g <= Abs(x)

ProximityReturned == pc = "done" /\ ~call.isPhrase
PhraseReturned == pc = "done" /\ call.isPhrase

\* C1: a non-phrase proximity query returns exactly the documents that hold
\* both terms and have a pair of positions p1, p2 with |p1 - p2| <= distance.
C1_ProximityExact ==
    ProximityReturned =>
        returned = Ok({d \in BothTerms : \E g \in Gaps(d) : Abs(g) <= call.distance})

\* A document at gap = distance is returned, one at distance + 1 is not.
C1_Witness ==
    /\ ProximityReturned
    /\ call.distance >= 1
    /\ BothTerms = {1, 2}
    /\ MinGap(2) = call.distance /\ 2 \in returned.val
    /\ MinGap(1) = call.distance + 1 /\ 1 \notin returned.val

\* C2: a phrase match returns exactly the documents that hold both terms and
\* have a pair of positions with p1 <= p2 and p2 - p1 <= distance; a document
\* where term1 occurs only after term2 is excluded, though the non-phrase
\* match with the same distance includes it when the gap is within distance.
C2_PhraseExact ==
    PhraseReturned =>
        /\ returned = Ok({d \in BothTerms :
                            \E g \in Gaps(d) : g <= 0 /\ 0 - g <= call.distance})
        /\ \A d \in BothTerms :
              (\A g \in Gaps(d) : g > 0) =>
                  /\ d \notin returned.val
                  /\ MinGap(d) <= call.distance =>
                        d \in proximityHandler(call.proximityQuery, call.distance, FALSE).val

\* Term1 only after term2 within the distance in document 1 (excluded); term1
\* before term2 in document 2 (returned).
C2_Witness ==
    /\ PhraseReturned
    /\ BothTerms = {1, 2}
    /\ \A g \in Gaps(1) : g > 0
    /\ MinGap(1) <= call.distance
    /\ returned.val = {2}
    /\ Len(Postings1[2]) >= 2

\* C8: scanning is given up only with both pointers at the last index.
C8_GiveUpOnlyAtBothEnds ==
    (pc = "while" /\ ~notOutOfBounds) =>
        /\ i = Len(dict1[document]) - 1
        /\ j = Len(dict2[document]) - 1

\* C9: the while loop runs at most len(P1) + len(P2) - 1 iterations for a
\* document, every iteration matches, gives up or moves exactly one pointer
\* forward by one, and no document is appended twice.
C9_IterationBound ==
    /\ pc = "while" => iterations <= Len(dict1[document]) + Len(dict2[document]) - 1
    /\ \A a, b \in 1..Len(matchingDocuments) :
          matchingDocuments[a] = matchingDocuments[b] => a = b

C9_IterationShape ==
    (pc = "while" /\ pc' = "while" /\ iterations' = iterations + 1) =>
        \/ /\ ~thereIsNoMatch' /\ notOutOfBounds' /\ i' = i /\ j' = j
           /\ matchingDocuments' = Append(matchingDocuments, document)
        \/ /\ ~notOutOfBounds' /\ thereIsNoMatch' /\ i' = i /\ j' = j
           /\ matchingDocuments' = matchingDocuments
        \/ /\ thereIsNoMatch' /\ notOutOfBounds' /\ i' = i + 1 /\ j' = j
           /\ matchingDocuments' = matchingDocuments
        \/ /\ thereIsNoMatch' /\ notOutOfBounds' /\ i' = i /\ j' = j + 1
           /\ matchingDocuments' = matchingDocuments

\* C9: the bound and the single forward move hold all through every run of
\* the merge loop, so the loop terminates.
C9_MergeTerminates == []C9_IterationBound /\ [][C9_IterationShape]_vars

\* The loop used every iteration the bound allows, moving both pointers.
C9_Witness ==
    /\ pc = "while"
    /\ Len(dict1[document]) + Len(dict2[document]) >= 5
    /\ iterations = Len(dict1[document]) + Len(dict2[document]) - 1
    /\ i >= 1 /\ j >= 1

\* C10: in the loop both pointers index their position lists, and the
\* scanned document is in both terms' posting maps.
C10_IndexSafety ==
    pc = "while" =>
        /\ document \in DOMAIN dict1 /\ document \in DOMAIN dict2
        /\ 0 <= i /\ i < Len(dict1[document])
        /\ 0 <= j /\ j < Len(dict2[document])

\* Both pointers at the last index of lists of two or more, with a document
\* that only one of the terms holds left out of the scan.
C10_Witness ==
    /\ pc = "while"
    /\ i = Len(dict1[document]) - 1 /\ i >= 1
    /\ j = Len(dict2[document]) - 1 /\ j >= 1
    /\ (DOMAIN dict1) \ (DOMAIN dict2) # {}

(***************************************************************************)
(* calculateTFIDF                                                          *)
(***************************************************************************)
\* np.log10 of 1..10 in thousandths; scores are kept in millionths.
Log10Milli == <<0, 301, 477, 602, 699, 778, 845, 903, 954, 1000>>

\* Lines 207 and 209: the amount a term adds to a document.  Python 2
\* divides the two integers collectionSize and termDictionarySize with
\* floor division.
TermWeight(tf, size, termDictionarySize) ==
    (1000 + Log10Milli[tf]) * Log10Milli[size \div termDictionarySize]

\* Lines 198-209: one token of the query.
AddTerm(term, queryDocumentScores) ==
    LET termStemmed == stemWordPorter(term)
        termDictionary == getTermDocumentDictionary(termStemmed)
        termDictionarySize == Cardinality(DOMAIN termDictionary)
    IN IF Len(term) > 0 /\ isNotAStopword(term)
       THEN IF termDictionarySize = 0 THEN queryDocumentScores
            ELSE [doc \in (DOMAIN queryDocumentScores) \cup (DOMAIN termDictionary) |->
                    (IF doc \in DOMAIN queryDocumentScores
                     THEN queryDocumentScores[doc] ELSE 0)
                    + (IF doc \in DOMAIN termDictionary
                       THEN TermWeight(Len(termDictionary[doc]), collectionSize,
                                       termDictionarySize)
                       ELSE 0)]
       ELSE queryDocumentScores

\* The term of a token has no postings (line 203).
AbsentTerm(term) == DOMAIN getTermDocumentDictionary(stemWordPorter(term)) = {}

\* ScoreTokens that leaves the loop at a term without postings.
RECURSIVE ScoreTokens_break(_, _)
ScoreTokens_break(tokens, queryDocumentScores) ==
    IF tokens = <<>> THEN queryDocumentScores
    ELSE IF AbsentTerm(Head(tokens)) THEN queryDocumentScores
    ELSE ScoreTokens_break(Tail(tokens), AddTerm(Head(tokens), queryDocumentScores))

\* Line 197: the loop over the tokens.
RECURSIVE ScoreTokens(_, _)
ScoreTokens(tokens, queryDocumentScores) ==
    IF tokens = <<>> THEN queryDocumentScores
    ELSE ScoreTokens(Tail(tokens), AddTerm(Head(tokens), queryDocumentScores))

NoScores == [doc \in {} |-> 0]

\* Lines 196-212.
calculateTFIDF(query) == ScoreTokens(tokenize(toLowerCase(query)), NoScores)

(***************************************************************************)
(* The batch driver                                                        *)
(***************************************************************************)
\* importBooleanQuery: the file is read as its queries in order, IDs 1..n.
importBooleanQuery(file) ==
    /\ pc = "idle"
    /\ booleanQueriesDictionary' = file
    /\ UNCHANGED <<indexVars, pc, call, proxVars, returned, tfidfQueriesDictionary,
                   queryResults, writing>>

\* importTFIDFQuery
importTFIDFQuery(file) ==
    /\ pc = "idle"
    /\ tfidfQueriesDictionary' = file
    /\ UNCHANGED <<indexVars, pc, call, proxVars, returned, booleanQueriesDictionary,
                   queryResults, writing>>

\* executeBooleanQueries: every query is evaluated, then the file is written;
\* a query that raises ends the batch before anything is written.
executeBooleanQueries ==
    /\ pc = "idle"
    /\ \E results \in {[k \in 1..Len(booleanQueriesDictionary) |->
                          complexExpressionHandler(booleanQueriesDictionary[k])]} :
          IF FirstError(results) # ""
          THEN /\ pc' = "raised"
               /\ returned' = Raise(FirstError(results))
               /\ UNCHANGED <<queryResults, writing>>
          ELSE /\ pc' = "done"
               /\ queryResults' = [k \in 1..Len(results) |-> results[k].val]
               /\ writing' = WriterRun(WriterOpen("boolean", queryResults'))
               /\ UNCHANGED returned
    /\ UNCHANGED <<indexVars, call, proxVars, booleanQueriesDictionary,
                   tfidfQueriesDictionary>>

\* executeTFIDFQueries
executeTFIDFQueries ==
    /\ pc = "idle"
    /\ pc' = "done"
    /\ queryResults' = [k \in 1..Len(tfidfQueriesDictionary) |->
                          calculateTFIDF(tfidfQueriesDictionary[k])]
    /\ writing' = WriterRun(WriterOpen("tfidf", queryResults'))
    /\ UNCHANGED <<indexVars, call, proxVars, returned, booleanQueriesDictionary,
                   tfidfQueriesDictionary>>

\* A writer called on its own, and run one step at a time.
WriteCall(kind, results) ==
    /\ pc = "idle"
    /\ pc' = "write"
    /\ writing' = WriterOpen(kind, results)
    /\ UNCHANGED <<indexVars, call, proxVars, returned, booleanQueriesDictionary,
                   tfidfQueriesDictionary, queryResults>>

WriteStep ==
    /\ pc = "write"
    /\ ~writing.closed
    /\ writing' = WriterStep(writing)
    /\ UNCHANGED <<indexVars, pc, call, proxVars, returned, booleanQueriesDictionary,
                   tfidfQueriesDictionary, queryResults>>

WriteReturn ==
    /\ pc = "write"
    /\ writing.closed
    /\ pc' = "done"
    /\ UNCHANGED <<indexVars, call, proxVars, returned, batchVars>>
(***************************************************************************)
(* The writers on results of up to BreakAt + 2 entries                     *)
(***************************************************************************)
ResultSizes == {0, 1, 2, BreakAt - 1, BreakAt, BreakAt + 1, BreakAt + 2}

\* n documents 1..n; in a ranking, scores with ties that do not follow the IDs.
BooleanResult(n) == 1..n
TFIDFResult(n) == [doc \in 1..n |-> (doc % 7) * 125]

WriterInputs(kind) ==
    LET result(n) == IF kind = "boolean" THEN BooleanResult(n) ELSE TFIDFResult(n)
    IN {<<result(n)>> : n \in ResultSizes}
       \cup {<<result(a), result(b)>> : a, b \in 0..2}

WriteBooleanCall ==
    /\ pc = "idle"
    /\ \E results \in WriterInputs("boolean") : WriteCall("boolean", results)

WriteTFIDFCall ==
    /\ pc = "idle"
    /\ \E results \in WriterInputs("tfidf") : WriteCall("tfidf", results)

WriteNext ==
    \/ WriteBooleanCall
    \/ WriteTFIDFCall
    \/ WriteStep
    \/ WriteReturn

SpecWrite == Init /\ [][WriteNext]_vars

\* The lines of query k in the file.
LinesOf(k) == SelectSeq(writing.output, LAMBDA line : line[1] = k)

\* C4: for every query of n >= 1 entries the writers write min(n, 1000)
\* lines, the first 1000 entries of the output order.
C4_WritesTop1000 ==
    (pc = "done" /\ writing.kind # "") =>
        \A k \in 1..Len(writing.results) :
            LET v == writing.results[k]
                n == Size(writing.kind, v)
                entries == Entries(writing.kind, v)
            IN n >= 1 =>
                  LinesOf(k) = [m \in 1..Min(n, 1000) |->
                                   ResultLine(writing.kind, k, entries[m])]

\* What the writers do: min(n, BreakAt) lines.
C4_WritesUpToBreak ==
    (pc = "done" /\ writing.kind # "") =>
        \A k \in 1..Len(writing.results) :
            LET v == writing.results[k]
                n == Size(writing.kind, v)
                entries == Entries(writing.kind, v)
            IN n >= 1 =>
                  LinesOf(k) = [m \in 1..Min(n, BreakAt) |->
                                   ResultLine(writing.kind, k, entries[m])]
(***************************************************************************)
(* The boolean batch over small indexes and queries                        *)
(***************************************************************************)
emu == <<"e", "m", "u">>
Dogs == <<"D", "o", "g", "s">>
NOTE == <<"N", "O", "T", "E">>
Blank == <<" ">>

BoolDocIDs == {1, 2}
\* cat and dog at position 1 or 2 of a document, emu at position 1.
BoolIndexFiles ==
    {[t \in {cat, dog, emu} |-> IF t = cat THEN c ELSE IF t = dog THEN d ELSE e] :
        c \in PostingMaps(BoolDocIDs, {<<1>>, <<2>>}),
        d \in PostingMaps(BoolDocIDs, {<<1>>, <<2>>}),
        e \in PostingMaps(BoolDocIDs, {<<1>>})}

\* Terms without operators: cat, Dogs, emu, and NOTE, which holds the
\* letters of an operator.
PlainTerms == {cat, Dogs, emu, NOTE}

\* Operands: a term, a negated term, a phrase, a phrase of one word, a
\* proximity expression.
NotDogs == NOT \o Blank \o Dogs
CatDogsPhrase == Quote \o cat \o Blank \o Dogs \o Quote
CatPhrase == Quote \o cat \o Quote
CatDogsProximity == <<"#", "1", "(">> \o cat \o <<",", " ">> \o Dogs \o <<")">>
NoDistanceProximity == <<"#", "(">> \o cat \o <<",", " ">> \o Dogs \o <<")">>
Operands == {cat, NotDogs, CatDogsPhrase, CatPhrase, CatDogsProximity}
Connectives == {AND, OR}

\* The three queries of the complement law, with NOT alone and with AND NOT.
NotBatch(A, B) == <<A \o Blank \o NOT \o Blank \o B, A \o AND \o B, A>>
AndNotBatch(A, B) == <<A \o AND \o NOT \o Blank \o B, A \o AND \o B, A>>

BoolQueryFiles ==
    {NotBatch(A, B) : A, B \in PlainTerms}
    \cup {AndNotBatch(A, B) : A, B \in PlainTerms}
    \cup {<<a \o c \o b>> : a, b \in Operands, c \in Connectives}
    \cup {<<a \o c \o b \o e \o f>> :
             a \in {cat, NotDogs}, b \in {Dogs, CatDogsPhrase}, f \in Operands,
             c, e \in Connectives}
    \cup {<<CatDogsProximity>>, <<NoDistanceProximity>>, <<Hash>>}

BoolLoadIndex ==
    /\ pc = "idle" /\ docIDSet = {}
    /\ \E file \in BoolIndexFiles : importInvertedIndexFromFile(file)

BoolImportQueries ==
    /\ pc = "idle" /\ booleanQueriesDictionary = <<>>
    /\ \E file \in BoolQueryFiles : importBooleanQuery(file)

BoolNext ==
    \/ BoolLoadIndex
    \/ BoolImportQueries
    \/ executeBooleanQueries

SpecBool == Init /\ [][BoolNext]_vars
(***************************************************************************)
(* Properties of the expression evaluator                                  *)
(***************************************************************************)
\* The plain terms that hold none of the operator literals.
OperatorFreeTerms ==
    {t \in PlainTerms : ~Contains(t, NOT) /\ ~Contains(t, Quote) /\ ~Contains(t, Hash)}

Executed(file) == pc = "done" /\ booleanQueriesDictionary = file

\* C3, as claimed: for plain terms A and B the results of "A NOT B" and of
\* "A AND B" are disjoint and their union is the result of "A".
C3_ComplementLaw ==
    \A A, B \in OperatorFreeTerms :
        Executed(NotBatch(A, B)) =>
            /\ queryResults[1] \cap queryResults[2] = {}
            /\ queryResults[1] \cup queryResults[2] = queryResults[3]

\* C3, amended: for terms A and B without operator literals the results of
\* "A AND NOT B" and of "A AND B" are disjoint and their union is the result
\* of "A"; "A NOT B" is the complement of B, whatever A is, and disjoint from
\* the result of "A AND B".
C3_AndNotLaw ==
    \A A, B \in OperatorFreeTerms :
        /\ Executed(AndNotBatch(A, B)) =>
              /\ queryResults[1] \cap queryResults[2] = {}
              /\ queryResults[1] \cup queryResults[2] = queryResults[3]
        /\ Executed(NotBatch(A, B)) =>
              /\ queryResults[1] = docIDSet \ getTermDocumentSet(preprocessedTerm(B))
              /\ queryResults[1] \cap queryResults[2] = {}

\* "cat AND NOT Dogs" and "cat AND Dogs" both have results.
C3_Witness ==
    /\ Executed(AndNotBatch(cat, Dogs))
    /\ queryResults[1] # {}
    /\ queryResults[2] # {}

\* The batch of one query with AND or OR in it has been run.
CombinedQueryRun ==
    /\ pc \in {"done", "raised"}
    /\ Len(booleanQueriesDictionary) = 1
    /\ Contains(booleanQueriesDictionary[1], AND) \/ Contains(booleanQueriesDictionary[1], OR)

\* The operands of the query of the batch, split as the branch taken splits.
OperandSets ==
    LET query == booleanQueriesDictionary[1]
        operands == Split(query, IF Contains(query, AND) THEN AND ELSE OR)
    IN [k \in 1..Len(operands) |-> simpleExpressionHandler(Strip(operands[k]))]

FirstTwoCombined ==
    IF Contains(booleanQueriesDictionary[1], AND)
    THEN OperandSets[1].val \cap OperandSets[2].val
    ELSE OperandSets[1].val \cup OperandSets[2].val

\* C6, as claimed: a query with " AND " returns the intersection of the sets
\* of its first two operands, whatever the other operands are; a query with
\* " OR " and no " AND " returns the union of the sets of its first two.
C6_FirstTwoWhateverRest ==
    (CombinedQueryRun /\ OperandSets[1].err = "" /\ OperandSets[2].err = "") =>
        /\ pc = "done"
        /\ queryResults[1] = FirstTwoCombined

\* C6, amended: that holds when every operand can be evaluated; an operand
\* that raises, at whatever place, makes the call raise.
C6_FirstTwoOfEvaluated ==
    CombinedQueryRun =>
        IF \A k \in 1..Len(OperandSets) : OperandSets[k].err = ""
        THEN pc = "done" /\ queryResults[1] = FirstTwoCombined
        ELSE pc = "raised"

\* "cat AND Dogs AND NOT Dogs" has results: the third operand is not used.
C6_Witness ==
    /\ pc = "done"
    /\ booleanQueriesDictionary = <<cat \o AND \o Dogs \o AND \o NotDogs>>
    /\ queryResults[1] # {}
(***************************************************************************)
(* The ranked batch over small indexes and queries                         *)
(***************************************************************************)
Cats == <<"C", "a", "t", "s">>
the == <<"t", "h", "e">>

TfidfDocIDs == {1, 2, 3}
\* cat occurs up to MaxTf times in a document, dog at most once.
TfidfIndexFiles ==
    {[t \in {cat, dog} |-> IF t = cat THEN c ELSE d] :
        c \in PostingMaps(TfidfDocIDs, {[p \in 1..n |-> p] : n \in 1..MaxTf}),
        d \in PostingMaps(TfidfDocIDs, {<<1>>})}

\* emu is in no index of the ranked batch.
TfidfWords == {Cats, dog, the, emu}

\* The texts of n words, blank-separated.
RECURSIVE Texts(_)
Texts(n) ==
    IF n = 1 THEN TfidfWords
    ELSE {t \o Blank \o w : t \in Texts(n - 1), w \in TfidfWords}

\* Every text of 1..MaxTokens words, and one with a double blank.
TfidfQueries ==
    UNION {Texts(n) : n \in 1..MaxTokens} \cup {Cats \o Blank \o Blank \o dog}

TfidfLoadIndex ==
    /\ pc = "idle" /\ docIDSet = {}
    /\ \E file \in TfidfIndexFiles : importInvertedIndexFromFile(file)

TfidfImportQuery ==
    /\ pc = "idle" /\ tfidfQueriesDictionary = <<>>
    /\ \E query \in TfidfQueries : importTFIDFQuery(<<query>>)

TfidfNext ==
    \/ TfidfLoadIndex
    \/ TfidfImportQuery
    \/ executeTFIDFQueries

SpecTfidf == Init /\ [][TfidfNext]_vars

(***************************************************************************)
(* Properties of the ranker                                                *)
(***************************************************************************)
Ranked == pc = "done" /\ Len(tfidfQueriesDictionary) = 1

\* The tokens of the ranked query.
QueryTokens == tokenize(toLowerCase(tfidfQueriesDictionary[1]))

TermPostings(token) == getTermDocumentDictionary(stemWordPorter(token))

\* The tokens that count for document d: not empty, not stop words, with d
\* among the documents of their term.
Hits(d) ==
    {k \in 1..Len(QueryTokens) :
        /\ Len(QueryTokens[k]) > 0
        /\ isNotAStopword(QueryTokens[k])
        /\ d \in DOMAIN TermPostings(QueryTokens[k])}

\* (1 + log10(tf)) * log10(collectionSize / df) with the exact ratio, whose
\* logarithm is log10(collectionSize) - log10(df).
ExactWeight(tf, size, df) == (1000 + Log10Milli[tf]) * (Log10Milli[size] - Log10Milli[df])

RECURSIVE SumOver(_, _)
SumOver(K, d) ==
    IF K = {} THEN 0
    ELSE LET k == CHOOSE x \in K : TRUE
             postings == TermPostings(QueryTokens[k])
         IN ExactWeight(Len(postings[d]), collectionSize, Cardinality(DOMAIN postings))
            + SumOver(K \ {k}, d)

\* C5: the score of a document is the sum over the tokens that hit it of
\* (1 + log10(tf)) * log10(collectionSize / df), with the exact ratio; a
\* document no token hits has no score.
C5_ExactRatioScores ==
    Ranked =>
        queryResults[1] = [d \in {x \in docIDSet : Hits(x) # {}} |-> SumOver(Hits(d), d)]

\* The scores of the tokens with token k left out.
WithoutToken(tokens, k) ==
    ScoreTokens([m \in 1..(Len(tokens) - 1) |-> IF m < k THEN tokens[m] ELSE tokens[m + 1]],
                NoScores)

\* C7: a token whose term has no postings, at any place of a ranked query,
\* leaves the scores what they are without it.
C7_AbsentTermIsNeutral ==
    Ranked =>
        \A tokens \in {QueryTokens} :
            \A k \in 1..Len(tokens) :
                AbsentTerm(tokens[k]) => queryResults[1] = WithoutToken(tokens, k)

\* A query of several tokens whose first has no postings and is no stop
\* word, with scored documents.
C7_Witness ==
    /\ Ranked
    /\ \E d \in DOMAIN queryResults[1] : queryResults[1][d] > 0
    /\ \E tokens \in {QueryTokens} :
          /\ Len(tokens) >= 2
          /\ AbsentTerm(tokens[1])
          /\ isNotAStopword(tokens[1])

====
